---- MODULE Spec2Model ----
(***************************************************************************)
(* Miniature GPT notebook: causal attention mask, token+position           *)
(* embedding, one Transformer block, language-model head, the             *)
(* TextGenerator callback (top-k autoregressive sampler) and the training  *)
(* driver wrapped by the carbon tracker.                                   *)
(*                                                                         *)
(* Python lists and arrays are modelled as TLA+ sequences (1-based);       *)
(* Python indices (positions, sample_index, arange values) keep their      *)
(* 0-based values and are converted where the sequence is read.  Floating  *)
(* point tensors are modelled by integers: the learned weights are a       *)
(* family of integer tables indexed by a weights version w.                *)
(***************************************************************************)
EXTENDS Integers, Sequences, FiniteSets, TLC

\* ---------------------------------------------------------------- sizes
\* Hyper-parameters of the notebook, scaled down for model checking.
\* vocab_size = 20000 and maxlen = 80 in the notebook.
vocab_size == 3

maxlen == 2

\* embed_dim = 256 and feed_forward_dim = 256 in the notebook, scaled down;
\* num_heads = 2 as in the notebook.
embed_dim == 3

num_heads == 2

feed_forward_dim == 2

\* Bounds on the inputs that are enumerated.
MaxPromptLen == 3

MaxBudget == 1

MaxBatch == 2

MaxN == 4

MaxTextLen == 4

\* The versions of the learned weights (the number of training epochs that
\* produced them), the values of print_every and the numbers of epochs of
\* the training driver that are enumerated.
WeightVersions == {1, 2}

PrintEverySet == {1, 2}

EpochCounts == {2}

\* Token ids: one logit per id (Dense(vocab_size)).
Vocab == 0 .. (vocab_size - 1)

\* ---------------------------------------------------------------- helpers
RECURSIVE SumOver(_, _)
\* Sum of f[i] for i in the finite set S.
SumOver(f, S) ==
    IF S = {} THEN 0
    ELSE LET i == CHOOSE e \in S : TRUE
         IN  f[i] + SumOver(f, S \ {i})

\* Python/numpy indexing of a sequence with a 0-based index; a negative
\* index counts from the end.
PyIndex(s, i) == IF i < 0 THEN s[Len(s) + i + 1] ELSE s[i + 1]

\* ops.arange(n): the values 0 .. n-1, in order.
arange(n) == [p \in 1 .. n |-> p - 1]

\* ---------------------------------------------------------------- mask
\* causal_attention_mask(batch_size, n_dest, n_src, dtype): the comparison
\* i >= j - n_src + n_dest on the broadcast index grids, reshaped to one
\* [1, n_dest, n_src] block and tiled batch_size times along the batch axis.
\* The result is indexed [batch][row][column], all 1-based.
causal_attention_mask_bug(batch_size, n_dest, n_src) ==
    LET i == arange(n_dest)
        j == arange(n_src)
        m == [r \in 1 .. n_dest |-> [c \in 1 .. n_src |-> i[r] >= j[c] - 1]]
        mask == <<m>>
    IN  [b \in 1 .. batch_size |-> mask[((b - 1) % 1) + 1]]

causal_attention_mask_upper_left(batch_size, n_dest, n_src) ==
    LET i == arange(n_dest)
        j == arange(n_src)
        m == [r \in 1 .. n_dest |-> [c \in 1 .. n_src |-> i[r] >= j[c]]]
        mask == <<m>>
    IN  [b \in 1 .. batch_size |-> mask[((b - 1) % 1) + 1]]

causal_attention_mask_strict(batch_size, n_dest, n_src) ==
    LET i == arange(n_dest)
        j == arange(n_src)
        m == [r \in 1 .. n_dest |->
                [c \in 1 .. n_src |-> i[r] > j[c] - n_src + n_dest]]
        mask == <<m>>
    IN  [b \in 1 .. batch_size |-> mask[((b - 1) % 1) + 1]]

causal_attention_mask(batch_size, n_dest, n_src) ==
    LET i == arange(n_dest)
        j == arange(n_src)
        m == [r \in 1 .. n_dest |->
                [c \in 1 .. n_src |-> i[r] >= j[c] - n_src + n_dest]]
        mask == <<m>>
    IN  [b \in 1 .. batch_size |-> mask[((b - 1) % 1) + 1]]

\* ---------------------------------------------------------------- weights
\* The learned tables of weights version w.  Rows of the token table are
\* indexed by token id, rows of the position table by position 0..maxlen-1.
token_emb(w) ==
    [t \in Vocab |-> [d \in 1 .. embed_dim |-> (((t + 2) * (d + w + 1)) % 5) - 2]]

pos_emb(w) ==
    [p \in 0 .. (maxlen - 1) |-> [d \in 1 .. embed_dim |-> (((p + 1) * (d + 1) + w) % 3) - 1]]

\* Query, key and value projections of each attention head (key_dim 1),
\* and the output projection back to embed_dim.
att_Wq(w) == [h \in 1 .. num_heads |-> [d \in 1 .. embed_dim |-> h + d + w]]

att_Wk(w) == [h \in 1 .. num_heads |-> [d \in 1 .. embed_dim |-> h * d + 1]]

att_Wv(w) == [h \in 1 .. num_heads |-> [d \in 1 .. embed_dim |-> (h + d + w) % 3]]

att_Wo(w) == [h \in 1 .. num_heads |-> [d \in 1 .. embed_dim |-> ((h + 2 * d) % 3) - 1]]

\* The two Dense layers of the feed-forward network.
ffn_W1(w) ==
    [d \in 1 .. embed_dim |-> [f \in 1 .. feed_forward_dim |-> ((d + f + w) % 3) - 1]]

ffn_b1(w) == [f \in 1 .. feed_forward_dim |-> f - 1]

ffn_W2(w) ==
    [f \in 1 .. feed_forward_dim |-> [d \in 1 .. embed_dim |-> (f + 2 * d + w) % 3]]

\* The language-model head Dense(vocab_size).
head_W(w) ==
    [d \in 1 .. embed_dim |-> [v \in Vocab |-> (((d + 1) * (v + 1) + w * v) % 5) - 2]]

head_b(w) == [v \in Vocab |-> (v + w) % 2]

\* ---------------------------------------------------------------- layers
\* An array value, evaluated once when it is built (the identity).
Array(f) == IF f = f THEN f ELSE f

\* Sum of the features of one vector.
FeatureSum(v) == SumOver(v, 1 .. embed_dim)

\* TokenAndPositionEmbedding.call(x): positions = arange(0, len(x), 1) are
\* looked up in pos_emb, the tokens in token_emb, and the two are added.
\* The argument x is written xs here.
TokenAndPositionEmbedding_call_bug(w, xs) ==
    LET n == Len(xs)
        positions == Array([p \in 1 .. n |-> pos_emb(w)[(arange(n)[p] + 1) % maxlen]])
        tok == Array([p \in 1 .. n |-> token_emb(w)[xs[p]]])
    IN  Array([p \in 1 .. n |-> [d \in 1 .. embed_dim |-> tok[p][d] + positions[p][d]]])

TokenAndPositionEmbedding_call(w, xs) ==
    LET n == Len(xs)
        positions == Array([p \in 1 .. n |-> pos_emb(w)[arange(n)[p]]])
        tok == Array([p \in 1 .. n |-> token_emb(w)[xs[p]]])
    IN  Array([p \in 1 .. n |-> [d \in 1 .. embed_dim |-> tok[p][d] + positions[p][d]]])

\* layers.LayerNormalization over the feature axis of one position: the
\* vector is centred on its mean and brought to unit range (each feature
\* becomes -1, 0 or 1 according to its side of the mean).
LayerNormalization(v) ==
    LET s == FeatureSum(v)
        c(d) == embed_dim * v[d] - s
    IN  Array([d \in 1 .. embed_dim |->
                  IF c(d) > 0 THEN 1 ELSE IF c(d) < 0 THEN -1 ELSE 0])

\* layers.MultiHeadAttention(num_heads, embed_dim)(inputs, inputs,
\* attention_mask = mask): per head, query i scores every key j, the scores
\* of the positions the mask allows become positive attention weights
\* (softmax), the masked ones weigh nothing, and the output is the weighted
\* mean of the values, projected back to embed_dim.
MultiHeadAttention(w, inputs, mask) ==
    LET n == Len(inputs)
        proj(W) == Array([h \in 1 .. num_heads |-> [p \in 1 .. n |->
                      SumOver([d \in 1 .. embed_dim |-> W[h][d] * inputs[p][d]],
                              1 .. embed_dim)]])
        q == proj(att_Wq(w))
        k == proj(att_Wk(w))
        v == proj(att_Wv(w))
        weight == Array([h \in 1 .. num_heads |-> [i \in 1 .. n |-> [j \in 1 .. n |->
                      IF mask[i][j] THEN 1 + ((q[h][i] * k[h][j]) % 3) ELSE 0]]])
        num(h, i) == SumOver([j \in 1 .. n |-> weight[h][i][j] * v[h][j]], 1 .. n)
        den(h, i) == SumOver(weight[h][i], 1 .. n)
        head == Array([h \in 1 .. num_heads |-> [i \in 1 .. n |->
                    IF den(h, i) = 0 THEN 0 ELSE num(h, i) \div den(h, i)]])
    IN  Array([i \in 1 .. n |->
            [d \in 1 .. embed_dim |->
                SumOver([h \in 1 .. num_heads |-> att_Wo(w)[h][d] * head[h][i]],
                        1 .. num_heads)]])

\* self.ffn: Dense(ff_dim, relu) then Dense(embed_dim), on one position.
ffn(w, v) ==
    LET relu(a) == IF a > 0 THEN a ELSE 0
        hidden == Array([f \in 1 .. feed_forward_dim |->
                      relu(SumOver([d \in 1 .. embed_dim |-> ffn_W1(w)[d][f] * v[d]],
                                   1 .. embed_dim) + ffn_b1(w)[f])])
    IN  Array([d \in 1 .. embed_dim |->
            SumOver([f \in 1 .. feed_forward_dim |-> ffn_W2(w)[f][d] * hidden[f]],
                    1 .. feed_forward_dim)])

\* TransformerBlock.call(inputs) for one batch element at inference (the
\* Dropout layers are the identity): the causal mask for seq_len, masked
\* self-attention, residual + layernorm1, ffn, residual + layernorm2.
TransformerBlock_call(w, inputs) ==
    LET seq_len == Len(inputs)
        causal_mask == Array(causal_attention_mask(1, seq_len, seq_len))
        attention_output == MultiHeadAttention(w, inputs, causal_mask[1])
        out1 == Array([p \in 1 .. seq_len |->
                    LayerNormalization(
                        Array([d \in 1 .. embed_dim |->
                                  inputs[p][d] + attention_output[p][d]]))])
        ffn_output == Array([p \in 1 .. seq_len |-> ffn(w, out1[p])])
    IN  Array([p \in 1 .. seq_len |->
            LayerNormalization(
                Array([d \in 1 .. embed_dim |-> out1[p][d] + ffn_output[p][d]]))])

\* TransformerBlock.__init__(embed_dim, num_heads, ff_dim): the layers it
\* builds.  MultiHeadAttention(num_heads, embed_dim) gives every head a
\* key_dim of embed_dim; Dense(units) raises ValueError unless units > 0.
TransformerBlock_init_bug(e, h, f) ==
    [raised |-> (f <= 0 \/ e <= 0 \/ e % h # 0),
     att |-> [num_heads |-> h, key_dim |-> e \div h],
     ffn |-> <<f, e>>]

TransformerBlock_init(e, h, f) ==
    [raised |-> (f <= 0 \/ e <= 0),
     att |-> [num_heads |-> h, key_dim |-> e],
     ffn |-> <<f, e>>]

\* The shapes TransformerBlock.call(inputs) computes for a block built by
\* __init__: every head projects the input's features to key_dim features,
\* the attention output is projected back to the input's feature count, the
\* ffn ends in Dense(embed_dim) and is added to out1.
TransformerBlock_call_shape(block, input_shape) ==
    LET batch_size == input_shape[1]
        seq_len == input_shape[2]
        causal_mask == causal_attention_mask(batch_size, seq_len, seq_len)
        heads == <<Len(causal_mask), block.att.num_heads, seq_len, block.att.key_dim>>
        attention_output == <<heads[1], heads[3], input_shape[3]>>
        out1 == input_shape
        ffn_output == <<out1[1], out1[2], block.ffn[2]>>
    IN  [heads |-> heads,
         raised |-> (attention_output # input_shape \/ ffn_output # out1),
         out |-> ffn_output]

\* layers.Dense(vocab_size) on every position: one logit per token id.
Dense_head(w, h) ==
    Array([p \in 1 .. Len(h) |->
        [v \in Vocab |->
            SumOver([d \in 1 .. embed_dim |-> head_W(w)[d][v] * h[p][d]], 1 .. embed_dim)
                + head_b(w)[v]]])

\* The model of create_model on one window: embedding, Transformer block,
\* head.  model_predict(w, xs) is y[0] of model.predict(np.array([x])).
model_predict(w, xs) ==
    Dense_head(w, TransformerBlock_call(w, TokenAndPositionEmbedding_call(w, xs)))

\* model.predict on every window of maxlen token ids, for every version of
\* the weights: the model is a function of its weights and its input.
model_predict_all ==
    Array([w \in WeightVersions |->
              Array([xs \in [1 .. maxlen -> Vocab] |-> model_predict(w, xs)])])

\* ---------------------------------------------------------------- vocabulary
\* vocab = vectorize_layer.get_vocabulary() of a TextVectorization built with
\* max_tokens = vocab_size - 1: the list of the vocab_size - 1 known words
\* ("" at index 0, "[UNK]" at index 1).  A word is named by its index.
vocab == [i \in 1 .. (vocab_size - 1) |-> i - 1]

\* word_to_index.get(_, 1) of the prompt's words: every prompt id is an
\* index of vocab.
PromptIds == {vocab[i] : i \in 1 .. Len(vocab)}

Prompts == UNION {[1 .. n -> PromptIds] : n \in 0 .. MaxPromptLen}

Budgets == 0 .. MaxBudget

TopKs == 0 .. (vocab_size + 1)

\* ---------------------------------------------------------------- sampler
\* ops.top_k(logits, k, sorted=True): the indices of the k largest entries,
\* largest first, the lower index first among equal entries.
top_k(logits, k) ==
    LET rank(v) == Cardinality({u \in DOMAIN logits :
                        logits[u] > logits[v] \/ (logits[u] = logits[v] /\ u < v)})
    IN  [r \in 1 .. k |-> CHOOSE v \in DOMAIN logits : rank(v) = r - 1]

\* Whether sample_from raises: top_k rejects k > vocab_size and k < 0, and
\* np.random.choice rejects the empty candidate list of k = 0.
sample_from_raises(k) == k <= 0 \/ k > vocab_size

\* keras.activations.softmax of the k kept logits: a positive weight for
\* every candidate, larger for a larger logit.
softmax(logits, indices) ==
    LET lo == CHOOSE m \in {logits[indices[r]] : r \in DOMAIN indices} :
                  \A r \in DOMAIN indices : m <= logits[indices[r]]
    IN  [r \in DOMAIN indices |-> 1 + (logits[indices[r]] - lo)]

\* TextGenerator.sample_from(logits): the token ids np.random.choice(indices,
\* p = preds) can return, i.e. the candidates of nonzero probability, with
\* indices the result of top_k and preds the softmax of the kept logits.
sample_from_bug(logits, k) == DOMAIN logits

sample_from(logits, k) ==
    UNION {UNION {{indices[r] : r \in {q \in 1 .. k : preds[q] > 0}} :
                     preds \in {softmax(logits, indices)}} :
              indices \in {top_k(logits, k)}}

\* TextGenerator.detokenize(number) raises IndexError when number is not an
\* index of index_to_word.
detokenize_raises(number) == number + 1 > Len(vocab)

detokenize(number) == vocab[number + 1]

\* The token list that on_epoch_end detokenizes and joins:
\* self.start_tokens + tokens_generated.
joined_tokens_bug(stored, working, generated) == working \o generated

joined_tokens(stored, working, generated) == stored \o generated

\* The window x and the sample_index that one pass of the loop body builds
\* from the working sequence (lines "pad_len = ..." to "x = start_tokens").
window(tokens) ==
    LET pad_len == maxlen - Len(tokens)
    IN  IF pad_len < 0
        THEN [x |-> SubSeq(tokens, 1, maxlen), sample_index |-> maxlen - 1]
        ELSE IF pad_len > 0
        THEN [x |-> tokens \o [i \in 1 .. pad_len |-> 0],
              sample_index |-> Len(tokens) - 1]
        ELSE [x |-> tokens, sample_index |-> Len(tokens) - 1]

\* ---------------------------------------------------------------- state
VARIABLES
    pc,                   \* where the training cell is
    n_epochs,             \* the epochs of the driver loop (25 in the notebook)
    epoch,                \* the driver's loop variable
    tracker,              \* the CarbonTracker: epochs started, ended, stopped
    weights,              \* the model's learned weights: the epochs trained
    self_max_tokens,      \* TextGenerator.max_tokens
    self_start_tokens,    \* TextGenerator.start_tokens (the stored prompt)
    self_k,               \* TextGenerator.k
    self_print_every,     \* TextGenerator.print_every
    cb_epoch,             \* the epoch argument of on_epoch_end
    start_tokens,         \* on_epoch_end: the working sequence
    tokens_generated,     \* on_epoch_end: the tokens sampled so far
    num_tokens_generated, \* on_epoch_end: their count
    head_tokens,          \* the working sequence at the head of the last pass
    x,                    \* the window of the last pass
    sample_index,         \* the row index of the last pass
    y_row,                \* y[0][sample_index] of the last pass
    predict_calls,        \* model.predict calls of this on_epoch_end
    printed,              \* whether this on_epoch_end printed its text
    txt,                  \* the words it printed
    inp,                  \* the input of a layer-level call
    fn,                   \* the layer-level function that was called
    ret                   \* what it returned

sampler_vars == <<cb_epoch, start_tokens, tokens_generated, num_tokens_generated,
                  head_tokens, x, sample_index, y_row, predict_calls, printed, txt>>

config_vars == <<n_epochs, self_max_tokens, self_start_tokens, self_k, self_print_every>>

layer_vars == <<inp, fn, ret>>

vars == <<pc, epoch, tracker, weights, config_vars, sampler_vars, layer_vars>>

\* No layer-level call: the value of inp in the training specification.
NoInput ==
    [kind |-> "none", batch_size |-> 0, n_dest |-> 0, n_src |-> 0, w |-> 0,
     xa |-> <<>>, xb |-> <<>>, text |-> <<>>, e_dim |-> 0, n_heads |-> 0, ff_dim |-> 0]

\* The locals of on_epoch_end before its first call.
SamplerIdle ==
    /\ cb_epoch = 0
    /\ start_tokens = <<>>
    /\ tokens_generated = <<>>
    /\ num_tokens_generated = 0
    /\ head_tokens = <<>>
    /\ x = <<>>
    /\ sample_index = 0
    /\ y_row = <<>>
    /\ predict_calls = 0
    /\ printed = FALSE
    /\ txt = <<>>

\* The notebook after text_gen_callback = TextGenerator(...), model =
\* create_model() and tracker = CarbonTracker(epochs = ...), entering the loop.
Init ==
    /\ pc = "epoch_start"
    /\ n_epochs \in EpochCounts
    /\ epoch = 0
    /\ tracker = [started |-> 0, ended |-> 0, stopped |-> 0]
    /\ weights = 0
    /\ self_max_tokens \in Budgets
    /\ self_start_tokens \in Prompts
    /\ self_k \in TopKs
    /\ self_print_every \in PrintEverySet
    /\ SamplerIdle
    /\ inp = NoInput
    /\ fn = "none"
    /\ ret = <<>>

\* ---------------------------------------------------------------- driver
\* tracker.epoch_start() at the top of the loop body.
tracker_epoch_start ==
    /\ pc = "epoch_start"
    /\ epoch < n_epochs
    /\ tracker' = [tracker EXCEPT !.started = @ + 1]
    /\ pc' = "fit"
    /\ UNCHANGED <<epoch, weights, config_vars, sampler_vars, layer_vars>>

\* model.fit(text_ds, epochs=1, callbacks=[text_gen_callback]): one epoch of
\* training gives the weights their next version; the epoch, which fit
\* numbers 0, then ends and fit calls on_epoch_end(0).
model_fit ==
    /\ pc = "fit"
    /\ weights' = weights + 1
    /\ cb_epoch' = 0
    /\ pc' = "on_epoch_end"
    /\ UNCHANGED <<epoch, tracker, config_vars, start_tokens, tokens_generated,
                   num_tokens_generated, head_tokens, x, sample_index, y_row,
                   predict_calls, printed, txt, layer_vars>>

\* on_epoch_end up to the loop: copy the prompt, return unless
\* (epoch + 1) % print_every = 0, else reset the counters.
on_epoch_end_enter ==
    /\ pc = "on_epoch_end"
    /\ start_tokens' = [i \in 1 .. Len(self_start_tokens) |-> self_start_tokens[i]]
    /\ tokens_generated' = <<>>
    /\ num_tokens_generated' = 0
    /\ head_tokens' = <<>>
    /\ x' = <<>>
    /\ sample_index' = 0
    /\ y_row' = <<>>
    /\ predict_calls' = 0
    /\ printed' = FALSE
    /\ txt' = <<>>
    /\ pc' = IF (cb_epoch + 1) % self_print_every # 0 THEN "returned" ELSE "loop"
    /\ UNCHANGED <<epoch, tracker, weights, config_vars, cb_epoch, layer_vars>>

\* One pass of `while num_tokens_generated <= self.max_tokens`: build the
\* window (win), predict (y), take the row y[0][sample_index], sample,
\* append.  sample_from may raise.
on_epoch_end_iterate_bug ==
    /\ pc = "loop"
    /\ num_tokens_generated <= self_max_tokens
    /\ \E win \in {window(start_tokens)} :
       \E y \in {model_predict_all[weights][win.x]} :
       \E row \in {PyIndex(y, win.sample_index)} :
           /\ head_tokens' = start_tokens
           /\ x' = win.x
           /\ sample_index' = win.sample_index
           /\ y_row' = row
           /\ predict_calls' = predict_calls + 1
           /\ IF sample_from_raises(self_k)
              THEN /\ pc' = "raised"
                   /\ UNCHANGED <<start_tokens, tokens_generated, num_tokens_generated>>
              ELSE \E sample_token \in sample_from(row, self_k) :
                       /\ tokens_generated' = Append(tokens_generated, sample_token)
                       /\ start_tokens' = Append(start_tokens, sample_token)
                       /\ num_tokens_generated' = Len(tokens_generated)
                       /\ pc' = "loop"
    /\ UNCHANGED <<epoch, tracker, weights, config_vars, cb_epoch, printed, txt,
                   layer_vars>>

on_epoch_end_iterate ==
    /\ pc = "loop"
    /\ num_tokens_generated <= self_max_tokens
    /\ \E win \in {window(start_tokens)} :
       \E y \in {model_predict_all[weights][win.x]} :
       \E row \in {PyIndex(y, win.sample_index)} :
           /\ head_tokens' = start_tokens
           /\ x' = win.x
           /\ sample_index' = win.sample_index
           /\ y_row' = row
           /\ predict_calls' = predict_calls + 1
           /\ IF sample_from_raises(self_k)
              THEN /\ pc' = "raised"
                   /\ UNCHANGED <<start_tokens, tokens_generated, num_tokens_generated>>
              ELSE \E sample_token \in sample_from(row, self_k) :
                       /\ tokens_generated' = Append(tokens_generated, sample_token)
                       /\ start_tokens' = Append(start_tokens, sample_token)
                       /\ num_tokens_generated' = Len(tokens_generated')
                       /\ pc' = "loop"
    /\ UNCHANGED <<epoch, tracker, weights, config_vars, cb_epoch, printed, txt,
                   layer_vars>>

\* The loop condition fails: join the detokenized prompt and generated
\* tokens and print them.  detokenize may raise.
on_epoch_end_print ==
    /\ pc = "loop"
    /\ ~(num_tokens_generated <= self_max_tokens)
    /\ LET out == joined_tokens(self_start_tokens, start_tokens, tokens_generated)
       IN  IF \E i \in 1 .. Len(out) : detokenize_raises(out[i])
           THEN /\ pc' = "raised"
                /\ UNCHANGED <<printed, txt>>
           ELSE /\ txt' = [i \in 1 .. Len(out) |-> detokenize(out[i])]
                /\ printed' = TRUE
                /\ pc' = "returned"
    /\ UNCHANGED <<epoch, tracker, weights, config_vars, cb_epoch, start_tokens,
                   tokens_generated, num_tokens_generated, head_tokens, x,
                   sample_index, y_row, predict_calls, layer_vars>>

\* The locals of on_epoch_end are gone when it has returned.
LocalsDropped ==
    /\ cb_epoch' = 0
    /\ start_tokens' = <<>>
    /\ tokens_generated' = <<>>
    /\ num_tokens_generated' = 0
    /\ head_tokens' = <<>>
    /\ x' = <<>>
    /\ sample_index' = 0
    /\ y_row' = <<>>
    /\ predict_calls' = 0
    /\ printed' = FALSE
    /\ txt' = <<>>

\* on_epoch_end returned and model.fit returns.
model_fit_return ==
    /\ pc = "returned"
    /\ LocalsDropped
    /\ pc' = "epoch_end"
    /\ UNCHANGED <<epoch, tracker, weights, config_vars, layer_vars>>

\* An exception raised in on_epoch_end propagates out of model.fit and out
\* of the loop: the cell stops, nothing after it runs.
cell_aborts ==
    /\ pc = "raised"
    /\ pc' = "aborted"
    /\ UNCHANGED <<epoch, tracker, weights, config_vars, sampler_vars, layer_vars>>

\* tracker.epoch_end() and the next value of the loop variable.
tracker_epoch_end ==
    /\ pc = "epoch_end"
    /\ tracker' = [tracker EXCEPT !.ended = @ + 1]
    /\ epoch' = epoch + 1
    /\ pc' = IF epoch + 1 < n_epochs THEN "epoch_start" ELSE "stop"
    /\ UNCHANGED <<weights, config_vars, sampler_vars, layer_vars>>

\* tracker.stop() after the loop.
tracker_stop ==
    /\ pc = "stop"
    /\ tracker' = [tracker EXCEPT !.stopped = @ + 1]
    /\ pc' = "finished"
    /\ UNCHANGED <<epoch, weights, config_vars, sampler_vars, layer_vars>>

Next ==
    \/ tracker_epoch_start
    \/ model_fit
    \/ on_epoch_end_enter
    \/ on_epoch_end_iterate
    \/ on_epoch_end_print
    \/ model_fit_return
    \/ cell_aborts
    \/ tracker_epoch_end
    \/ tracker_stop

Spec == Init /\ [][Next]_vars

\* The cell runs to its end: the interpreter executes the next statement
\* whenever there is one.
SpecFair == Spec /\ WF_vars(Next)

\* ---------------------------------------------------------------- data
\* A word of the corpus is named by its frequency rank (1 = most frequent).
\* The adapted TextVectorization gives the ranks that fit under max_tokens
\* the ids 2, 3, ... and every other word the id 1 ([UNK]).
word_id(r) == IF r + 1 < Len(vocab) THEN r + 1 ELSE 1

\* vectorize_layer(text), output_sequence_length = maxlen + 1: the ids of the
\* words, cut to maxlen + 1 entries or padded with 0 to that length.
vectorize_layer(words) ==
    LET n == maxlen + 1
        ids == [i \in 1 .. Len(words) |-> word_id(words[i])]
    IN  IF Len(ids) >= n THEN SubSeq(ids, 1, n)
        ELSE ids \o [i \in 1 .. (n - Len(ids)) |-> 0]

\* prepare_lm_inputs_labels(text) on a batch of texts:
\* x = tokenized_sentences[:, :-1], y = tokenized_sentences[:, 1:].
prepare_lm_inputs_labels_bug(text) ==
    LET tokenized_sentences == [b \in 1 .. Len(text) |-> vectorize_layer(text[b])]
    IN  [x |-> [b \in 1 .. Len(text) |->
                   SubSeq(tokenized_sentences[b], 1, Len(tokenized_sentences[b]) - 1)],
         y |-> [b \in 1 .. Len(text) |->
                   SubSeq(tokenized_sentences[b], 1, Len(tokenized_sentences[b]) - 1)]]

prepare_lm_inputs_labels(text) ==
    LET tokenized_sentences == [b \in 1 .. Len(text) |-> vectorize_layer(text[b])]
    IN  [x |-> [b \in 1 .. Len(text) |->
                   SubSeq(tokenized_sentences[b], 1, Len(tokenized_sentences[b]) - 1)],
         y |-> [b \in 1 .. Len(text) |->
                   SubSeq(tokenized_sentences[b], 2, Len(tokenized_sentences[b]))]]

\* ---------------------------------------------------------------- layer calls
\* The inputs of the layer-level calls that are enumerated.
Words == {1, vocab_size}

Texts == UNION {[1 .. n -> Words] : n \in 0 .. MaxTextLen}

TextBatches == UNION {[1 .. b -> Texts] : b \in 1 .. 2}

MaskInputs ==
    {[NoInput EXCEPT !.kind = "mask", !.batch_size = b, !.n_dest = d, !.n_src = s] :
        b \in 1 .. MaxBatch, d \in 1 .. MaxN, s \in 1 .. MaxN}

ForwardInputs ==
    UNION {{[NoInput EXCEPT !.kind = "forward", !.w = w, !.xa = a, !.xb = b] :
               w \in WeightVersions, a \in [1 .. n -> Vocab], b \in [1 .. n -> Vocab]} :
           n \in 1 .. maxlen}

DataInputs == {[NoInput EXCEPT !.kind = "data", !.text = t] : t \in TextBatches}

\* TransformerBlock(e_dim, n_heads, ff_dim) applied to a batch of batch_size
\* sequences of n_dest vectors of e_dim features.
BlockInputs ==
    {[NoInput EXCEPT !.kind = "block", !.e_dim = e, !.n_heads = h, !.ff_dim = f,
                     !.batch_size = b, !.n_dest = n] :
        e \in 0 .. embed_dim, h \in 1 .. (num_heads + 1), f \in 1 .. feed_forward_dim,
        b \in 1 .. MaxBatch, n \in 1 .. maxlen}

\* A layer-level call is about to be made on an enumerated input; the
\* training cell is not running.
InitLayers ==
    /\ pc = "layers"
    /\ n_epochs = 0
    /\ epoch = 0
    /\ tracker = [started |-> 0, ended |-> 0, stopped |-> 0]
    /\ weights = 0
    /\ self_max_tokens = 0
    /\ self_start_tokens = <<>>
    /\ self_k = 0
    /\ self_print_every = 1
    /\ SamplerIdle
    /\ inp \in MaskInputs \cup ForwardInputs \cup DataInputs \cup BlockInputs
    /\ fn = "none"
    /\ ret = <<>>

LayersFrame == UNCHANGED <<pc, epoch, tracker, weights, config_vars, sampler_vars, inp>>

\* causal_attention_mask(batch_size, n_dest, n_src, "bool").
call_causal_attention_mask ==
    /\ fn = "none"
    /\ inp.kind = "mask"
    /\ fn' = "causal_attention_mask"
    /\ ret' = causal_attention_mask(inp.batch_size, inp.n_dest, inp.n_src)
    /\ LayersFrame

\* TokenAndPositionEmbedding.call on the window xa and on the window xb.
call_TokenAndPositionEmbedding ==
    /\ fn = "none"
    /\ inp.kind = "forward"
    /\ fn' = "TokenAndPositionEmbedding"
    /\ ret' = [a |-> TokenAndPositionEmbedding_call(inp.w, inp.xa),
               b |-> TokenAndPositionEmbedding_call(inp.w, inp.xb)]
    /\ LayersFrame

\* The forward pipeline on the window xa and on the window xb: the block's
\* output (hidden) and the head's logits of each.
call_model ==
    /\ fn = "none"
    /\ inp.kind = "forward"
    /\ fn' = "model"
    /\ ret' = [hidden_a |-> TransformerBlock_call(inp.w,
                                TokenAndPositionEmbedding_call(inp.w, inp.xa)),
               hidden_b |-> TransformerBlock_call(inp.w,
                                TokenAndPositionEmbedding_call(inp.w, inp.xb)),
               logits_a |-> model_predict(inp.w, inp.xa),
               logits_b |-> model_predict(inp.w, inp.xb)]
    /\ LayersFrame

\* prepare_lm_inputs_labels on a batch of texts.
call_prepare_lm_inputs_labels ==
    /\ fn = "none"
    /\ inp.kind = "data"
    /\ fn' = "prepare_lm_inputs_labels"
    /\ ret' = prepare_lm_inputs_labels(inp.text)
    /\ LayersFrame

\* transformer_block = TransformerBlock(embed_dim, num_heads, ff_dim).
new_TransformerBlock ==
    /\ fn = "none"
    /\ inp.kind = "block"
    /\ fn' = "TransformerBlock.__init__"
    /\ ret' = TransformerBlock_init(inp.e_dim, inp.n_heads, inp.ff_dim)
    /\ LayersFrame

\* transformer_block(x): the forward step of a block whose constructor
\* returned.
call_TransformerBlock ==
    /\ fn = "TransformerBlock.__init__"
    /\ ~ret.raised
    /\ fn' = "TransformerBlock.call"
    /\ ret' = TransformerBlock_call_shape(ret, <<inp.batch_size, inp.n_dest, inp.e_dim>>)
    /\ LayersFrame

NextLayers ==
    \/ new_TransformerBlock
    \/ call_TransformerBlock
    \/ call_causal_attention_mask
    \/ call_TokenAndPositionEmbedding
    \/ call_model
    \/ call_prepare_lm_inputs_labels

SpecLayers == InitLayers /\ [][NextLayers]_vars

\* ---------------------------------------------------------------- properties
\* A pass of the generation loop has run in the current on_epoch_end.
PassDone == pc \in {"loop", "raised", "returned", "aborted"} /\ predict_calls > 0

\* The last pass appended a token.
TokenAppended == PassDone /\ Len(tokens_generated) > 0

\* C1: a run of on_epoch_end that generates appends exactly max_tokens
\* tokens: when the loop is left the working sequence has length
\* len(prompt) + max_tokens, and with max_tokens = 0 the model is never
\* called and the working sequence is the prompt.
C1_ExactBudget ==
    (pc = "returned" /\ printed) =>
        /\ Len(tokens_generated) = self_max_tokens
        /\ Len(start_tokens) = Len(self_start_tokens) + self_max_tokens
        /\ (self_max_tokens = 0 =>
                predict_calls = 0 /\ start_tokens = self_start_tokens)

\* C2: in a pass whose working sequence is longer than maxlen, the window
\* is the last maxlen tokens of the working sequence and sample_index is
\* maxlen - 1, so the window holds the token appended by the pass before.
C2_WindowIsLastTokens ==
    (PassDone /\ Len(head_tokens) > maxlen) =>
        /\ x = SubSeq(head_tokens, Len(head_tokens) - maxlen + 1, Len(head_tokens))
        /\ sample_index = maxlen - 1

\* C3: in every pass the window has exactly maxlen entries, the working
\* sequence's tokens followed only by 0 padding when it is shorter than
\* maxlen, and the sampled row is at an index in [0, maxlen) that holds a
\* token of the working sequence, never padding.
C3_SampledRowIsRealToken ==
    PassDone =>
        /\ Len(x) = maxlen
        /\ (Len(head_tokens) < maxlen =>
                /\ SubSeq(x, 1, Len(head_tokens)) = head_tokens
                /\ \A i \in (Len(head_tokens) + 1) .. maxlen : x[i] = 0
                /\ sample_index = Len(head_tokens) - 1)
        /\ sample_index \in 0 .. (maxlen - 1)
        /\ sample_index + 1 <= Len(head_tokens)

\* The ids that fewer than k ids beat in the row (a higher logit, or the
\* same logit at a lower id).
KHighest(row, k) ==
    {v \in Vocab :
        Cardinality({u \in Vocab : row[u] > row[v] \/ (row[u] = row[v] /\ u < v)}) < k}

\* C4: the token a pass appends is one of the k = top_k highest-scoring
\* ids of the row selected in that pass, those candidates are exactly k
\* ids, and every generated id lies in [0, vocab_size).
C4_TopKOnly ==
    /\ \A i \in 1 .. Len(tokens_generated) : tokens_generated[i] \in 0 .. (vocab_size - 1)
    /\ TokenAppended =>
        /\ tokens_generated[Len(tokens_generated)] \in KHighest(y_row, self_k)
        /\ Cardinality(KHighest(y_row, self_k)) = self_k

\* C4 witness: a token that is not the highest-scoring id was appended
\* with top_k below the vocabulary size.
C4_Witness ==
    /\ TokenAppended
    /\ pc = "loop"
    /\ self_k = 2
    /\ \E u \in Vocab : y_row[u] > y_row[tokens_generated[Len(tokens_generated)]]

\* C5: the stored prompt never changes, at every loop head the working
\* sequence is the stored prompt followed by the generated tokens (so each
\* call starts again from the stored prompt), and the printed text is the
\* stored prompt followed by the generated tokens in sampling order.
C5_PromptCopied ==
    [][/\ self_start_tokens' = self_start_tokens
       /\ (pc' = "loop" => start_tokens' = self_start_tokens' \o tokens_generated')
       /\ ((pc = "on_epoch_end" /\ pc' = "loop") => start_tokens' = self_start_tokens)
       /\ (printed' =>
             /\ Len(txt') = Len(self_start_tokens') + Len(tokens_generated')
             /\ \A i \in 1 .. Len(self_start_tokens') :
                    txt'[i] = vocab[self_start_tokens'[i] + 1]
             /\ \A i \in 1 .. Len(tokens_generated') :
                    txt'[Len(self_start_tokens') + i] = vocab[tokens_generated'[i] + 1])
      ]_vars

\* C5 witness: a second call of on_epoch_end printed a non-empty prompt
\* followed by generated tokens.
C5_Witness ==
    /\ printed
    /\ epoch = 1
    /\ Len(self_start_tokens) = 2
    /\ Len(tokens_generated) = 2

\* C6: for equal destination and source counts n, the mask has shape
\* (batch_size, n, n), entry [i][j] is true exactly when i >= j, and every
\* batch element holds the same mask.
C6_SquareMaskLowerTriangular ==
    (fn = "causal_attention_mask" /\ inp.n_dest = inp.n_src) =>
        /\ Len(ret) = inp.batch_size
        /\ \A b \in 1 .. inp.batch_size :
              /\ Len(ret[b]) = inp.n_dest
              /\ ret[b] = ret[1]
              /\ \A i \in 0 .. (inp.n_dest - 1) :
                    /\ Len(ret[b][i + 1]) = inp.n_src
                    /\ \A j \in 0 .. (inp.n_src - 1) : ret[b][i + 1][j + 1] = (i >= j)

\* C6 witness: a square mask of side 3 was built for a batch of 2.
C6_Witness ==
    /\ fn = "causal_attention_mask"
    /\ inp.n_dest = 3
    /\ inp.n_src = 3
    /\ inp.batch_size = 2
    /\ ret[2][2] = <<TRUE, TRUE, FALSE>>

\* C7: for differing counts the triangle is anchored at the lower-right
\* corner: row i allows exactly the source positions j <= i + (n_src -
\* n_dest); with n_src > n_dest that includes all of the first n_src -
\* n_dest positions, and nothing after i + (n_src - n_dest).
C7_RectangularMaskLowerRight ==
    (fn = "causal_attention_mask" /\ inp.n_dest # inp.n_src) =>
        LET shift == inp.n_src - inp.n_dest
        IN  \A b \in 1 .. inp.batch_size : \A i \in 0 .. (inp.n_dest - 1) :
                /\ \A j \in 0 .. (inp.n_src - 1) :
                      ret[b][i + 1][j + 1] = (j <= i + shift)
                /\ shift > 0 => \A j \in 0 .. (shift - 1) : ret[b][i + 1][j + 1]
                /\ ret[b][inp.n_dest][inp.n_src]

\* C7 witness: a mask with more source than destination positions whose
\* first row allows the earlier positions and masks the last one.
C7_Witness ==
    /\ fn = "causal_attention_mask"
    /\ inp.n_dest = 2
    /\ inp.n_src = 4
    /\ ret[1][1] = <<TRUE, TRUE, TRUE, FALSE>>

\* C8: two windows of the same length that agree on positions 0..i give
\* the same block output and the same logits at every position <= i,
\* whatever the positions after i hold.
C8_Causality ==
    fn = "model" =>
        \A i \in 1 .. Len(inp.xa) :
            (\A p \in 1 .. i : inp.xa[p] = inp.xb[p]) =>
                \A p \in 1 .. i :
                    /\ ret.hidden_a[p] = ret.hidden_b[p]
                    /\ ret.logits_a[p] = ret.logits_b[p]

\* C8 witness: two windows that agree on position 0 only; the outputs at
\* the position where they differ are different.
C8_Witness ==
    /\ fn = "model"
    /\ Len(inp.xa) = maxlen
    /\ inp.xa[1] = inp.xb[1]
    /\ inp.xa[maxlen] # inp.xb[maxlen]
    /\ ret.logits_a[maxlen] # ret.logits_b[maxlen]

\* C9: the embedding of position p of a window is token_table[token[p]] +
\* position_table[p], p counted from the start of the window.
C9_EmbeddingSum ==
    fn = "TokenAndPositionEmbedding" =>
        /\ Len(ret.a) = Len(inp.xa)
        /\ \A p \in 0 .. (Len(inp.xa) - 1) : \A d \in 1 .. embed_dim :
              /\ ret.a[p + 1][d] = token_emb(inp.w)[inp.xa[p + 1]][d] + pos_emb(inp.w)[p][d]
              /\ ret.b[p + 1][d] = token_emb(inp.w)[inp.xb[p + 1]][d] + pos_emb(inp.w)[p][d]

\* C9 witness: a full window was embedded and two equal tokens at
\* different positions got different vectors.
C9_Witness ==
    /\ fn = "TokenAndPositionEmbedding"
    /\ Len(inp.xa) = maxlen
    /\ inp.xa[1] = inp.xa[2]
    /\ ret.a[1] # ret.a[2]

\* C10: every vectorized sequence t has maxlen + 1 entries, x and y have
\* maxlen entries, x[i] = t[i] and y[i] = t[i+1], hence y[i] = x[i+1].
C10_ShiftedTargets ==
    fn = "prepare_lm_inputs_labels" =>
        \A b \in 1 .. Len(inp.text) :
            LET t == vectorize_layer(inp.text[b])
            IN  /\ Len(t) = maxlen + 1
                /\ Len(ret.x[b]) = maxlen
                /\ Len(ret.y[b]) = maxlen
                /\ \A i \in 1 .. maxlen :
                      /\ ret.x[b][i] = t[i]
                      /\ ret.y[b][i] = t[i + 1]
                /\ \A i \in 1 .. (maxlen - 1) : ret.y[b][i] = ret.x[b][i + 1]

\* C10 witness: a batch of two texts, one cut to maxlen + 1 words and one
\* padded, whose targets differ from its inputs.
C10_Witness ==
    /\ fn = "prepare_lm_inputs_labels"
    /\ Len(inp.text) = 2
    /\ Len(inp.text[1]) > maxlen + 1
    /\ Len(inp.text[2]) = 1
    /\ ret.x[2] # ret.y[2]

\* C11: a TextGenerator with top_k <= 0 or top_k > vocab_size reports its
\* configuration error before any sampling: no model prediction has run,
\* no token was drawn and nothing was appended to the working sequence
\* when the error is raised.
C11_ConfigErrorBeforeSampling ==
    sample_from_raises(self_k) =>
        /\ predict_calls = 0
        /\ tokens_generated = <<>>
        /\ (pc \in {"loop", "raised", "aborted"} => start_tokens = self_start_tokens)

\* C12 as claimed: a TransformerBlock whose embed_dim is not divisible by
\* num_heads is rejected by the constructor and never reaches the forward
\* step.
C12_IndivisibleRejected ==
    (inp.kind = "block" /\ inp.e_dim % inp.n_heads # 0) =>
        /\ fn # "TransformerBlock.call"
        /\ (fn = "TransformerBlock.__init__" => ret.raised)

\* C12: the constructor does not look at divisibility: for every embed_dim,
\* ff_dim >= 1 and num_heads >= 1 it returns a block whose attention has
\* num_heads heads of key_dim = embed_dim each, and the forward step of
\* that block runs without a shape error and keeps the input's shape.
C12_NoDivisibilityCheck ==
    /\ (fn = "TransformerBlock.__init__" /\ inp.e_dim >= 1 /\ inp.ff_dim >= 1) =>
          /\ ~ret.raised
          /\ ret.att = [num_heads |-> inp.n_heads, key_dim |-> inp.e_dim]
    /\ fn = "TransformerBlock.call" =>
          /\ ~ret.raised
          /\ ret.heads = <<inp.batch_size, inp.n_heads, inp.n_dest, inp.e_dim>>
          /\ ret.out = <<inp.batch_size, inp.n_dest, inp.e_dim>>

\* C12 witness: the forward step ran on a block whose embed_dim is not a
\* multiple of its num_heads.
C12_Witness ==
    /\ fn = "TransformerBlock.call"
    /\ inp.e_dim = 3
    /\ inp.n_heads = 2
    /\ ret.out[3] = 3

\* The sampler's state in the current call of on_epoch_end: the prompt is
\* not copied yet, the loop condition holds, or the loop condition failed.
Phase ==
    CASE pc = "on_epoch_end" -> "AWAITING_PROMPT"
      [] pc = "loop" /\ num_tokens_generated <= self_max_tokens -> "GENERATING"
      [] pc = "loop" /\ num_tokens_generated > self_max_tokens -> "DONE"
      [] pc = "returned" /\ printed -> "DONE"
      [] OTHER -> "none"

\* C13: the sampler goes AWAITING_PROMPT -> GENERATING -> DONE and
\* terminates: every pass of the loop that completes appends exactly one
\* token and raises the generated count by exactly one, the count never
\* passes max_tokens + 1, a run that is GENERATING leaves the loop (DONE, or
\* the error of a bad top_k), with a valid top_k it reaches DONE, and in
\* DONE no token is appended any more.
C13_SamplerTerminates ==
    /\ [][/\ (Phase = "AWAITING_PROMPT" /\ pc' = "loop") => Phase' = "GENERATING"
          /\ (Phase = "GENERATING" /\ pc' = "loop") =>
                /\ Phase' \in {"GENERATING", "DONE"}
                /\ Len(tokens_generated') = Len(tokens_generated) + 1
                /\ SubSeq(tokens_generated', 1, Len(tokens_generated)) = tokens_generated
                /\ start_tokens' = Append(start_tokens, tokens_generated'[Len(tokens_generated')])
                /\ num_tokens_generated' = num_tokens_generated + 1
                /\ num_tokens_generated' <= self_max_tokens + 1
          /\ (Phase' = "GENERATING") => Phase \in {"AWAITING_PROMPT", "GENERATING"}
          /\ (Phase = "DONE" /\ pc' # "epoch_end") =>
                /\ Phase' \in {"DONE", "none"}
                /\ tokens_generated' = tokens_generated
                /\ start_tokens' = start_tokens
         ]_vars
    /\ (Phase = "GENERATING") ~> (Phase = "DONE" \/ pc = "raised")
    /\ (Phase = "GENERATING" /\ ~sample_from_raises(self_k)) ~> (Phase = "DONE")

\* C13 witness: a run with a prompt longer than the window reached DONE
\* after max_tokens + 1 = 2 passes.
C13_Witness ==
    /\ Phase = "DONE"
    /\ pc = "loop"
    /\ Len(self_start_tokens) = 3
    /\ predict_calls = 2
    /\ Len(tokens_generated) = 2

\* C15: with print_every = p, text is generated and printed at the end of
\* exactly the epochs of the driver whose 1-based number is a multiple of
\* p: the loop runs only in such an epoch, and on_epoch_end returns from
\* such an epoch only after printing.
C15_PrintEveryPthEpoch ==
    /\ (pc = "loop" \/ predict_calls > 0 \/ printed) =>
          (epoch + 1) % self_print_every = 0
    /\ (pc = "returned" /\ (epoch + 1) % self_print_every = 0) => printed

\* The tracker calls are in the order of the driver loop: epoch_start
\* before the epoch's training and generation, epoch_end after both and
\* before the next epoch_start, starts and ends alternating, stop at most
\* once and only after the last epoch_end; they change neither the weights
\* nor the stored prompt.
TrackerOrder ==
    /\ [](/\ tracker.started - tracker.ended \in {0, 1}
          /\ (pc \in {"fit", "on_epoch_end", "loop", "returned", "raised", "epoch_end"}) =>
                (tracker.started = epoch + 1 /\ tracker.ended = epoch)
          /\ (pc \in {"epoch_start", "stop", "finished"}) =>
                (tracker.started = epoch /\ tracker.ended = epoch)
          /\ weights \in {tracker.ended, tracker.started}
          /\ tracker.stopped \in {0, 1}
          /\ (tracker.stopped = 1) => (tracker.ended = n_epochs /\ pc = "finished"))
    /\ [][/\ (tracker' # tracker) =>
                (weights' = weights /\ self_start_tokens' = self_start_tokens)
          /\ (tracker'.started # tracker.started) =>
                (tracker.started = tracker.ended /\ pc' = "fit")
          /\ (tracker'.ended # tracker.ended) =>
                (tracker.started = tracker.ended + 1 /\ pc = "epoch_end")
          /\ (weights' # weights) => (tracker.started = tracker.ended + 1)
          /\ (pc \in {"on_epoch_end", "loop"}) => (tracker' = tracker)
         ]_vars

\* C16: every epoch of the driver is wrapped by the tracker: the calls are
\* in the order of TrackerOrder, and when the cell of a validly configured
\* generator has ended, every one of the n_epochs epochs was started and
\* ended and stop was called exactly once.
C16_EveryEpochWrapped ==
    /\ TrackerOrder
    /\ []((pc \in {"finished", "aborted"} /\ ~sample_from_raises(self_k)) =>
            /\ tracker.started = n_epochs
            /\ tracker.ended = n_epochs
            /\ tracker.stopped = 1)

\* C17: rendering never fails on an id the sampler can emit: every prompt
\* id and every generated id (any id in [0, vocab_size)) has an entry in
\* index_to_word, so the only exception of on_epoch_end is the one of an
\* invalid top_k and the final join completes.
C17_RenderNeverFails ==
    /\ \A i \in 1 .. Len(self_start_tokens) : ~detokenize_raises(self_start_tokens[i])
    /\ \A i \in 1 .. Len(tokens_generated) : ~detokenize_raises(tokens_generated[i])
    /\ (pc = "raised") => sample_from_raises(self_k)

\* The source positions (0-based) that row i of batch element b of a mask
\* allows.
Allowed(mask, b, i) == {j \in 0 .. (Len(mask[b][i + 1]) - 1) : mask[b][i + 1][j + 1]}

\* C18 as claimed: for every n_dest >= 1 and n_src >= 1, every row of the
\* mask allows at least one source position, the allowed set of a row is a
\* prefix of the source positions, and it is contained in the allowed set
\* of the next row.
C18_NoRowFullyMasked ==
    fn = "causal_attention_mask" =>
        \A b \in 1 .. inp.batch_size : \A i \in 0 .. (inp.n_dest - 1) :
            /\ Allowed(ret, b, i) # {}
            /\ Allowed(ret, b, i) = 0 .. (Cardinality(Allowed(ret, b, i)) - 1)
            /\ (i + 1 < inp.n_dest) => (Allowed(ret, b, i) \subseteq Allowed(ret, b, i + 1))

\* C18: row i of the mask allows exactly the first i + 1 + n_src - n_dest
\* source positions (none when that is not positive, all n_src when it is
\* more): a prefix, contained in the next row's, and one source position
\* longer as long as neither is empty or full.  The row allows at least
\* one position exactly when i >= n_dest - n_src, so no row is fully masked
\* when n_src >= n_dest, and the first n_dest - n_src rows are fully masked
\* when n_src < n_dest.
C18_RowsArePrefixes ==
    fn = "causal_attention_mask" =>
        \A b \in 1 .. inp.batch_size : \A i \in 0 .. (inp.n_dest - 1) :
            LET want == i + 1 + inp.n_src - inp.n_dest
                count == IF want < 0 THEN 0 ELSE IF want > inp.n_src THEN inp.n_src ELSE want
            IN  /\ Allowed(ret, b, i) = 0 .. (count - 1)
                /\ (Allowed(ret, b, i) # {}) = (i >= inp.n_dest - inp.n_src)
                /\ (inp.n_src >= inp.n_dest) => (Allowed(ret, b, i) # {})
                /\ (i + 1 < inp.n_dest) =>
                      /\ Allowed(ret, b, i) \subseteq Allowed(ret, b, i + 1)
                      /\ (0 < want /\ want < inp.n_src) =>
                            Cardinality(Allowed(ret, b, i + 1)) = count + 1

\* C18 witness: a mask with fewer source than destination positions whose
\* first row is fully masked and whose last row allows every source
\* position.
C18_Witness ==
    /\ fn = "causal_attention_mask"
    /\ inp.n_dest = 3
    /\ inp.n_src = 2
    /\ Allowed(ret, 1, 0) = {}
    /\ Allowed(ret, 1, 1) = {0}
    /\ Allowed(ret, 1, 2) = {0, 1}

====
